---- MODULE Spec2Model ----
(***************************************************************************)
(* A model of option_signals' cache decorator (tools/set_runtime.py) and   *)
(* of the Matrix value it stores (tools/load_mx/matrix.py).                *)
(*                                                                         *)
(* Python values are tagged tuples <<type, payload>>.  A Python string is  *)
(* <<"str", s>> with s a sequence of tokens, so that "_".join and + are    *)
(* real concatenations.  sha256 is modelled as an injective constructor:   *)
(* the digest of b is one token spelling b out (collision resistance is    *)
(* assumed, nothing else about the digest is).                             *)
(***************************************************************************)
EXTENDS Integers, Sequences, FiniteSets, TLC

\* ------------------------------------------------------------------ bounds
\* How many distinct Matrix contents the wrapped function can produce.
MaxResults == 2
\* How many cache files the model lets exist at once.
MaxFiles == 2
\* The largest magnitude of a cell that arithmetic is let to produce.
MaxCell == 1
\* The longest time grid a constructor of the model is let to build.
MaxGrid == 13
\* The last instant of the time line that grids and observations lie on.
MaxTime == 3
\* The most observations a series of the model holds.
MaxObs == 2
\* The number of write calls one pickle.dump of the model takes.
MaxChunks == 2
\* The last calendar day of the vendor's data (days are counted from 0).
MaxDay == 2
\* The largest page limit of a request.
MaxLimit == 2
\* The number of requests one _fetch_real_ohlc of the model is let to make.
MaxRequests == 5
\* The largest scalar, and the largest cell, of an operation with the scalar on
\* the left.
MaxOperand == 2

\* ------------------------------------------------------------ Python values
None == <<"NoneType">>
Str(s) == <<"str", s>>
PyTrue == <<"bool", "True">>
PyFalse == <<"bool", "False">>
IsStr(v) == v[1] = "str"
IsBaseMatrix(v) == v[1] = "BaseMatrix"
\* bool(v) as Python's `if v:` / `not v` evaluate it
Truthy(v) == ~(v = None \/ v = PyFalse \/ v = Str(<<>>))

\* A cell of a table: the missing marker or a number.
NaN == <<"nan">>
Num(n) == <<"num", n>>

RECURSIVE Join(_, _)
\* sep.join(parts) for a list of Python strings (payloads)
Join(sep, parts) ==
  IF parts = <<>> THEN <<>>
  ELSE IF Len(parts) = 1 THEN parts[1]
  ELSE parts[1] \o sep \o Join(sep, Tail(parts))

RECURSIVE Flatten(_)
\* the row-major concatenation of a table's rows
Flatten(rows) ==
  IF rows = <<>> THEN <<>> ELSE rows[1] \o Flatten(Tail(rows))

\* sha256(b).hexdigest(): one token, a different one for every b
sha256(b) == "sha256(" \o ToString(b) \o ")"

\* the eight bytes of a float64 cell, as one token
CellBytes(c) == IF c = NaN THEN "nan" ELSE ToString(c[2])

\* ------------------------------------------------------------------ Matrix
\* pd.DataFrame(np.nan, index=time_list, columns=universe)
NanFrame(time_list, universe) ==
  [index |-> time_list, columns |-> universe,
   values |-> [i \in 1..Len(time_list) |-> [j \in 1..Len(universe) |-> NaN]]]

\* BaseMatrix.__init__: the object's __dict__ after construction
BaseMatrixInit(universe, start_time, end_time, time_granularity, matrix_cache_folder, time_list) ==
  [matrix_type |-> "BaseMatrix",
   universe |-> universe,
   start_time |-> start_time,
   end_time |-> end_time,
   time_granularity |-> time_granularity,
   underlying_df |-> NanFrame(time_list, universe),
   matrix_cache_folder |-> matrix_cache_folder,
   time_list |-> time_list,
   unique_str |-> Join(<<"_">>, << <<"BaseMatrix">>, start_time, end_time >>)]

\* df.to_numpy().tobytes(): the cells in row-major order, nothing else
DfBytes(df) ==
  LET cells == Flatten(df.values) IN [i \in 1..Len(cells) |-> CellBytes(cells[i])]

\* a digest that leaves the table out
BaseMatrix_update_signature_stale(m) == sha256(m.unique_str)

\* BaseMatrix.update_signature
BaseMatrix_update_signature(m) == sha256(m.unique_str \o DfBytes(m.underlying_df))

\* BaseMatrix.__repr__: repr(self.underlying_df).  The tables of the model are
\* small, so the frame is printed whole: labels and every cell.
BaseMatrix_repr(m) ==
  LET df == m.underlying_df
      row(i) == <<df.index[i]>> \o [j \in 1..Len(df.values[i]) |-> CellBytes(df.values[i][j])] \o <<"\n">>
  IN df.columns \o <<"\n">> \o Flatten([i \in 1..Len(df.values) |-> row(i)])

\* --------------------------------------------------- tables (pandas frames)
\* the smallest of two numbers
Min(a, b) == IF a <= b THEN a ELSE b

\* df.iloc[i, j] = v, and df.loc[t, a] = v for labels the table has
df_set_cell(df, i, j, v) == [df EXCEPT !.values[i][j] = v]

\* df[key] = v for a scalar v: the column is overwritten, or added at the end
df_setitem(df, key, v) ==
  IF \E j \in DOMAIN df.columns : df.columns[j] = key
  THEN [df EXCEPT !.values =
          [i \in DOMAIN df.values |->
             [j \in DOMAIN df.columns |-> IF df.columns[j] = key THEN v ELSE df.values[i][j]]]]
  ELSE [index |-> df.index, columns |-> Append(df.columns, key),
        values |-> [i \in DOMAIN df.values |-> Append(df.values[i], v)]]

\* df[key] = series for a column the table has and a series in the table's
\* row order
df_setitem_series(df, key, series) ==
  [df EXCEPT !.values =
     [i \in DOMAIN df.values |->
        [j \in DOMAIN df.columns |-> IF df.columns[j] = key THEN series[i] ELSE df.values[i][j]]]]

\* df.isetitem(loc, v) for a scalar v: column number loc is overwritten in place
df_isetitem(df, loc, v) ==
  [df EXCEPT !.values =
     [i \in DOMAIN df.values |->
        [j \in DOMAIN df.values[i] |-> IF j = loc THEN v ELSE df.values[i][j]]]]

\* df.head(n)
df_head(df, n) ==
  [index |-> SubSeq(df.index, 1, Min(n, Len(df.index))), columns |-> df.columns,
   values |-> SubSeq(df.values, 1, Min(n, Len(df.values)))]

\* df.fillna(v)
df_fillna(df, v) ==
  [df EXCEPT !.values =
     [i \in DOMAIN df.values |->
        [j \in DOMAIN df.values[i] |->
           IF df.values[i][j] = NaN THEN v ELSE df.values[i][j]]]]

\* -df
df_neg(df) ==
  [df EXCEPT !.values =
     [i \in DOMAIN df.values |->
        [j \in DOMAIN df.values[i] |->
           IF df.values[i][j] = NaN THEN NaN ELSE Num(0 - df.values[i][j][2])]]]

\* an infinite float64 cell of sign s
Inf(s) == <<"inf", s>>

\* the absolute value and the sign of an integer
Abs(n) == IF n < 0 THEN 0 - n ELSE n
Sign(n) == IF n < 0 THEN 0 - 1 ELSE 1

\* float64 division of two numbers: x / 0 is an infinity of x's sign, 0 / 0 is
\* the missing marker.  The model divides only where the quotient is whole.
CellDiv(x, y) ==
  IF y[2] = 0
  THEN IF x[2] = 0 THEN NaN ELSE Inf(Sign(x[2]))
  ELSE Num(Sign(x[2]) * Sign(y[2]) * (Abs(x[2]) \div Abs(y[2])))

\* a // b for whole numbers and b # 0: the quotient rounded towards minus
\* infinity
FloorDiv(a, b) ==
  LET q == Abs(a) \div Abs(b)
  IN IF a = 0 \/ Sign(a) = Sign(b) THEN q
     ELSE IF Abs(a) % Abs(b) = 0 THEN 0 - q ELSE 0 - q - 1

\* operator.floordiv on two numbers of a float64 table: pandas gives x // 0 the
\* infinity of x's sign, and 0 // 0 the missing marker
CellFloordiv(x, y) ==
  IF y[2] = 0
  THEN IF x[2] = 0 THEN NaN ELSE Inf(Sign(x[2]))
  ELSE Num(FloorDiv(x[2], y[2]))

\* operator.mod on two numbers of a float64 table: x % 0 is the missing
\* marker, and the remainder has the divisor's sign
CellMod(x, y) ==
  IF y[2] = 0 THEN NaN ELSE Num(x[2] - y[2] * FloorDiv(x[2], y[2]))

\* x ** n for a whole n >= 0
RECURSIVE IntPow(_, _)
IntPow(x, n) == IF n = 0 THEN 1 ELSE x * IntPow(x, n - 1)

\* operator.pow on two float64 cells: anything ** 0 is 1 and 1 ** anything is
\* 1, the missing marker included; otherwise the missing marker propagates.
\* The exponents of the model are not negative.
CellPow(x, y) ==
  IF y = Num(0) \/ x = Num(1) THEN Num(1)
  ELSE IF x = NaN \/ y = NaN THEN NaN
  ELSE Num(IntPow(x[2], y[2]))

\* operator.add / sub / mul / truediv / floordiv / mod / pow on two float64
\* cells: but for pow, the missing marker propagates
CellOp(op, x, y) ==
  IF op = "pow" THEN CellPow(x, y)
  ELSE IF x = NaN \/ y = NaN THEN NaN
  ELSE CASE op = "add" -> Num(x[2] + y[2])
         [] op = "sub" -> Num(x[2] - y[2])
         [] op = "mul" -> Num(x[2] * y[2])
         [] op = "truediv" -> CellDiv(x, y)
         [] op = "floordiv" -> CellFloordiv(x, y)
         [] op = "mod" -> CellMod(x, y)

\* op_func(df, other) for a scalar, or for a table carrying df's own labels
df_binop(op, df, other) ==
  [df EXCEPT !.values =
     [i \in DOMAIN df.values |->
        [j \in DOMAIN df.values[i] |->
           CellOp(op, df.values[i][j],
                  IF other[1] \in {"num", "nan"} THEN other ELSE other[2].values[i][j])]]]

\* pd.DataFrame(np.tile(v, (ncols, 1)).T, columns=df.columns, index=df.index):
\* row i holds v[i] in every column
df_tile(v, df) ==
  [df EXCEPT !.values =
     [i \in DOMAIN df.values |-> [j \in DOMAIN df.values[i] |-> v[i]]]]

\* df.shape
df_shape(df) == <<Len(df.index), Len(df.columns)>>

\* .replace([np.inf, -np.inf], np.nan)
df_replace_inf(df) ==
  [df EXCEPT !.values =
     [i \in DOMAIN df.values |->
        [j \in DOMAIN df.values[i] |->
           IF df.values[i][j][1] = "inf" THEN NaN ELSE df.values[i][j]]]]

\* ---------------------------------------------------- Matrix's own operations
\* bm = BaseMatrix(self.universe, self.start_time, self.end_time,
\*                 self.time_granularity, self.matrix_cache_folder, self.time_list)
\* bm.underlying_df = result
Wrap(m, result) ==
  [BaseMatrixInit(m.universe, m.start_time, m.end_time, m.time_granularity,
                  m.matrix_cache_folder, m.time_list)
   EXCEPT !.underlying_df = result]

\* BaseMatrix._apply_op for a scalar, a Matrix, or a Series or array with one
\* entry per row, on the right
BaseMatrix_apply_op(m, other, op) ==
  LET o2 == IF IsBaseMatrix(other) THEN <<"frame", other[2].underlying_df>>
            ELSE IF other[1] \in {"Series", "ndarray"}
                    /\ Len(other[2]) = df_shape(m.underlying_df)[1]
                 THEN <<"frame", df_tile(other[2], m.underlying_df)>>
            ELSE other
  IN Wrap(m, df_replace_inf(df_binop(op, m.underlying_df, o2)))

\* BaseMatrix.__truediv__: the Matrix it returns, or the error it raises
BaseMatrix_truediv(m, other) ==
  IF IsBaseMatrix(other)
  THEN IF df_shape(m.underlying_df) # df_shape(other[2].underlying_df)
       THEN <<"raise", "ValueError">>
       ELSE LET divisor_df == df_fillna(other[2].underlying_df, Num(0))
                result_df == df_binop("truediv", m.underlying_df, <<"frame", divisor_df>>)
            IN <<"BaseMatrix", Wrap(m, df_replace_inf(result_df))>>
  ELSE IF other[1] = "DataFrame"
  THEN IF df_shape(m.underlying_df) # df_shape(other[2])
       THEN <<"raise", "ValueError">>
       ELSE LET divisor_df == df_fillna(other[2], Num(0))
                result_df == df_binop("truediv", m.underlying_df, <<"frame", divisor_df>>)
            IN <<"BaseMatrix", Wrap(m, df_replace_inf(result_df))>>
  ELSE IF other[1] \in {"num", "nan"}
  THEN <<"BaseMatrix", Wrap(m, df_binop("truediv", m.underlying_df, other))>>
  ELSE <<"BaseMatrix", BaseMatrix_apply_op(m, other, "truediv")>>

\* BaseMatrix.__rsub__, __rtruediv__, __rfloordiv__, __rmod__, __rpow__: what
\* Python calls for `other - m`, `other / m`, ... when other's own method
\* returns NotImplemented, as those of int and float do for a Matrix
BaseMatrix_rsub(m, other) == BaseMatrix_apply_op(m, other, "sub")
BaseMatrix_rtruediv(m, other) == BaseMatrix_apply_op(m, other, "truediv")
BaseMatrix_rfloordiv(m, other) == BaseMatrix_apply_op(m, other, "floordiv")
BaseMatrix_rmod(m, other) == BaseMatrix_apply_op(m, other, "mod")
BaseMatrix_rpow(m, other) == BaseMatrix_apply_op(m, other, "pow")

\* BaseMatrix.__neg__
BaseMatrix_neg(m) == Wrap(m, df_neg(m.underlying_df))

\* the table methods the model forwards
Methods == {"head", "fillna", "isetitem"}

\* 'inplace' in inspect.signature(attr).parameters
HasInplace(name) == name = "fillna"

\* attr(*args, **kwargs): what the table method returns, and the table after it
DfMethod(name, df, arg, inplace) ==
  CASE name = "head" -> [result |-> <<"DataFrame", df_head(df, arg)>>, df |-> df]
    [] name = "fillna" ->
         IF inplace THEN [result |-> None, df |-> df_fillna(df, arg)]
         ELSE [result |-> <<"DataFrame", df_fillna(df, arg)>>, df |-> df]
    [] name = "isetitem" -> [result |-> None, df |-> df_isetitem(df, 1, arg)]

\* BaseMatrix.__getattr__'s wrapper around a callable of the table: whether it
\* returns self, the receiver's table after the call, and the Matrix it builds
\* when it does not return self
BaseMatrix_getattr_wrapper(m, name, arg, inplace) ==
  LET r == DfMethod(name, m.underlying_df, arg, inplace)
  IN IF HasInplace(name) /\ inplace
     THEN [self |-> TRUE, df |-> r.df, bm |-> None]
     ELSE IF ~HasInplace(name) /\ r.result = None /\ name \in {"update"}
     THEN [self |-> TRUE, df |-> r.df, bm |-> None]
     ELSE [self |-> FALSE, df |-> r.df,
           bm |-> <<"BaseMatrix", Wrap(m, IF r.result = None THEN None ELSE r.result[2])>>]

\* --------------------------------------------------------------- RuntimeEnv
\* the fields of the RuntimeEnv dataclass, in declaration order
EnvKeys ==
  <<"g_start_time", "g_end_time", "g_time_granularity", "g_use_cache",
    "g_matrix_cache_folder", "g_data_folder", "g_blow_cache", "g_debug_mode",
    "g_universe_num">>

EnvKeySet == {EnvKeys[i] : i \in DOMAIN EnvKeys}

\* globals().get(key) of a module in which set_runtime was never called
UnsetEnv == [k \in EnvKeySet |-> None]

\* repr() of the values the model passes around
ReprScalar(v) ==
  IF v = None THEN <<"None">>
  ELSE IF v[1] = "bool" THEN <<v[2]>>
  ELSE IF v[1] = "str" THEN <<"'">> \o v[2] \o <<"'">>
  ELSE IF v[1] = "BaseMatrix" THEN BaseMatrix_repr(v[2])
  ELSE <<"?">>

\* the dataclass's generated __repr__
ReprRuntimeEnv(rv) ==
  <<"RuntimeEnv(">>
  \o Join(<<", ">>, [i \in DOMAIN EnvKeys |-> <<EnvKeys[i], "=">> \o ReprScalar(rv[EnvKeys[i]])])
  \o <<")">>

Repr(v) == IF v[1] = "RuntimeEnv" THEN ReprRuntimeEnv(v[2]) ELSE ReprScalar(v)

\* str(args) of the positional tuple
ArgsStr(args) ==
  <<"(">> \o Join(<<", ">>, [i \in DOMAIN args |-> Repr(args[i])])
  \o (IF Len(args) = 1 THEN <<",">> ELSE <<>>) \o <<")">>

\* the keyword names of the model, in Python's string order
KwOrder == <<"column", "mx", "other", "runtime_vars">>

\* sorted(kwargs.items()): keys are unique, so the items sort by key
SortedItems(kwargs) ==
  LET keys == {kwargs[i][1] : i \in DOMAIN kwargs}
      ordered == SelectSeq(KwOrder, LAMBDA k : k \in keys)
  IN [i \in DOMAIN ordered |-> kwargs[CHOOSE j \in DOMAIN kwargs : kwargs[j][1] = ordered[i]]]

\* str(sorted(kwargs.items()))
KwargsStr(kwargs) ==
  LET items == SortedItems(kwargs)
      item(i) == <<"(", "'", items[i][1], "'", ", ">> \o Repr(items[i][2]) \o <<")">>
  IN <<"[">> \o Join(<<", ">>, [i \in DOMAIN items |-> item(i)]) \o <<"]">>

\* kwargs["runtime_vars"] = runtime_vars: a new key goes last, an existing one
\* keeps its place
WithRuntimeVars(kwargs, rv) ==
  IF \E i \in DOMAIN kwargs : kwargs[i][1] = "runtime_vars"
  THEN [i \in DOMAIN kwargs |->
          IF kwargs[i][1] = "runtime_vars" THEN <<"runtime_vars", <<"RuntimeEnv", rv>>>>
          ELSE kwargs[i]]
  ELSE Append(kwargs, <<"runtime_vars", <<"RuntimeEnv", rv>>>>)

\* for _, v in kwargs.items(): the keyword Matrix signatures, in call order
KwMatrixSignatures(kwargs) ==
  LET mx == SelectSeq(kwargs, LAMBDA it : IsBaseMatrix(it[2]))
  IN [i \in DOMAIN mx |-> BaseMatrix_update_signature(mx[i][2][2])]

\* matrix_arg_signatures: positional Matrix arguments first, then keyword ones
MatrixArgSignatures(args, kwargs) ==
  LET mx == SelectSeq(args, IsBaseMatrix)
  IN [i \in DOMAIN mx |-> <<BaseMatrix_update_signature(mx[i][2])>>]
     \o [i \in DOMAIN KwMatrixSignatures(kwargs) |-> <<KwMatrixSignatures(kwargs)[i]>>]

\* the join of unique_str raises TypeError unless all three are strings
CanJoin(rv) ==
  IsStr(rv.g_start_time) /\ IsStr(rv.g_end_time) /\ IsStr(rv.g_time_granularity)

\* unique_str of the wrapper (kwargs already holds runtime_vars)
UniqueStr(fn, rv, args, kwargs) ==
  Join(<<"_">>, << <<fn.name>>, rv.g_start_time[2], rv.g_end_time[2],
                   rv.g_time_granularity[2], ArgsStr(args), KwargsStr(kwargs) >>)

\* signature = sha256(unique_str + matrix_arg_signature_str).hexdigest()
Fingerprint(fn, rv, args, kwargs) ==
  sha256(UniqueStr(fn, rv, args, kwargs)
         \o Join(<<"_">>, MatrixArgSignatures(args, kwargs)))

\* pkl_file
PklFile(fn, rv, signature) ==
  rv.g_matrix_cache_folder[2] \o <<"/", fn.name, "_", signature, ".pkl">>

\* ------------------------------------------------------------------ pickle
\* a __getstate__ that leaves the table out of the state
BaseMatrix_getstate_notable(m) ==
  [m EXCEPT !.underlying_df = NanFrame(m.time_list, m.universe)]

\* BaseMatrix.__getstate__: a copy of the object's __dict__
BaseMatrix_getstate(m) == m

\* BaseMatrix.__setstate__: the new object's __dict__ is updated with the state
BaseMatrix_setstate(state) == state

\* pickle.dump(ret_mx, file, protocol=4)
PickleDump(obj) == <<"pickle4", <<obj[1], BaseMatrix_getstate(obj[2])>>>>

\* what is left of an entry whose write was cut short or whose bytes were damaged
Corrupt == <<"garbage">>

\* a read that answers None for bytes that are no pickle
ReadEntry_lenient(bytes) ==
  IF bytes[1] = "pickle4"
  THEN <<"ok", <<bytes[2][1], BaseMatrix_setstate(bytes[2][2])>>>>
  ELSE <<"ok", None>>

\* with open(pkl_file, "rb") as file: loaded_mx = pickle.load(file)
\* pickle.load raises on bytes that are no pickle
ReadEntry(bytes) ==
  IF bytes[1] = "pickle4"
  THEN <<"ok", <<bytes[2][1], BaseMatrix_setstate(bytes[2][2])>>>>
  ELSE <<"raise", "UnpicklingError">>

\* ------------------------------------------------------- the program's state
VARIABLES
  env,      \* the module globals set_runtime writes and the wrapper reads
  dirs,     \* the directories that exist
  files,    \* the cache files that exist: path -> bytes
  last,     \* the most recent decorated call: its inputs and what it did
  prev,     \* the decorated call before it
  probe,    \* two calls whose fingerprints are compared
  heap,     \* the Matrix objects the program holds, by variable
  sigcalls, \* the last call of update_signature
  setlog,   \* the value each key was last passed to set_runtime with
  div,      \* one division: its operands and its result
  ctor,     \* one construction of a Matrix: its arguments and its outcome
  asof,     \* one get_ohlcv alignment: observations, grid and output
  race,     \* two processes inside one decorated call, and the cache file
  fetch,    \* one run of _fetch_real_ohlc: the vendor and the loop's locals
  refl      \* one operation with a scalar on the left: operands and result

cacheVars == <<env, dirs, files, last, prev, setlog>>

laterVars == <<div, ctor, asof, race, fetch, refl>>

vars == <<env, dirs, files, last, prev, probe, heap, sigcalls, setlog, div, ctor, asof, race, fetch, refl>>

\* the parts of the state a specification does not exercise
DivIdle == div = <<>>
CtorIdle == ctor = <<>>
AsofIdle == asof = <<>>
RaceIdle == race = <<>>
FetchIdle == fetch = <<>>
ReflIdle == refl = <<>>

\* the decorated functions: two of them carry the same __name__
Funcs ==
  {[id |-> 1, name |-> "Prices"], [id |-> 2, name |-> "Returns"],
   [id |-> 3, name |-> "Prices"]}

\* the Matrix the wrapped function builds from the runtime it is handed:
\* content k over a one-cell table
ResultMatrix(rv, k) ==
  [BaseMatrixInit(<<"I:SPX">>, rv.g_start_time[2], rv.g_end_time[2],
                  rv.g_time_granularity, rv.g_matrix_cache_folder, <<"t1">>)
   EXCEPT !.underlying_df.values = << <<Num(k)>> >>]

NoCall ==
  [status |-> "none", fn |-> [id |-> 0, name |-> ""], args |-> <<>>, kwargs |-> <<>>,
   rv |-> UnsetEnv, passed |-> <<>>, invoked |-> FALSE, result |-> None,
   error |-> "", signature |-> "", pkl_file |-> <<>>, entry |-> None,
   wrote |-> {}, mkdirs |-> {}]

\* files with the entry at path p set to bytes b
Store(F, p, b) == [q \in DOMAIN F \cup {p} |-> IF q = p THEN b ELSE F[q]]

\* a store that puts the entry under the function's name alone
StoreEntry_byname(F, fn, pkl_file, b) ==
  Store(F, <<"/", fn.name, ".pkl">>, b)

\* with open(pkl_file, "wb") as file: pickle.dump(ret_mx, file, protocol=4)
StoreEntry(F, fn, pkl_file, b) == Store(F, pkl_file, b)

\* a test that never finds the entry
IsHit_never(rv, F, pkl_file) == FALSE

\* if not runtime_vars.g_blow_cache and os.path.exists(pkl_file)
IsHit(rv, F, pkl_file) == ~Truthy(rv.g_blow_cache) /\ pkl_file \in DOMAIN F

\* load_store_from_cache.wrapper, from the call to its return or its raise.
\* fres is what the wrapped function does if it is invoked: 0 raises, k > 0
\* returns a Matrix of content k.  The value is the call's record together
\* with the directories and files the call leaves behind.
Wrapper(fn, args, kwargs0, rv, D, F, fres) ==
  LET kwargs == WithRuntimeVars(kwargs0, rv)
      base == [NoCall EXCEPT !.fn = fn, !.args = args, !.kwargs = kwargs0, !.rv = rv]
      raise(e, c, D1) == [call |-> [c EXCEPT !.status = "error", !.error = e],
                          dirs |-> D1, files |-> F]
      \* ret_mx = func(*args, **kwargs) and what follows it
      invoke(c, D1, caching) ==
        LET c1 == [c EXCEPT !.invoked = TRUE, !.passed = kwargs]
        IN IF fres = 0 THEN raise("raised by func", c1, D1)
           ELSE LET ret_mx == <<"BaseMatrix", ResultMatrix(rv, fres)>>
                IN [call |-> [c1 EXCEPT !.status = "returned", !.result = ret_mx],
                    dirs |-> D1,
                    files |-> IF caching
                              THEN StoreEntry(F, fn, c.pkl_file, PickleDump(ret_mx))
                              ELSE F]
  IN IF ~CanJoin(rv) THEN raise("TypeError", base, D)
     ELSE
       LET signature == Fingerprint(fn, rv, args, kwargs)
           c0 == [base EXCEPT !.signature = signature]
       IN IF ~Truthy(rv.g_use_cache) THEN invoke(c0, D, FALSE)
          ELSE IF ~IsStr(rv.g_matrix_cache_folder) THEN raise("TypeError", c0, D)
          ELSE
            LET pkl_file == PklFile(fn, rv, signature)
                D1 == D \cup {rv.g_matrix_cache_folder[2]}
                c1 == [c0 EXCEPT !.pkl_file = pkl_file,
                                 !.entry = IF pkl_file \in DOMAIN F
                                           THEN <<"bytes", F[pkl_file]>> ELSE None]
            IN IF IsHit(rv, F, pkl_file)
               THEN LET loaded == ReadEntry(F[pkl_file])
                    IN IF loaded[1] = "ok"
                       THEN [call |-> [c1 EXCEPT !.status = "returned",
                                                 !.result = loaded[2]],
                             dirs |-> D1, files |-> F]
                       ELSE raise(loaded[2], c1, D1)
               ELSE invoke(c1, D1, TRUE)

\* ------------------------------------------------------------- set_runtime
\* get_project_root(): an absolute path
ProjectRoot == <<"/", "project">>

\* resolve_path
resolve_path(path) ==
  IF path = None THEN None
  ELSE IF path[2] # <<>> /\ path[2][1] = "/" THEN path
  ELSE Str(ProjectRoot \o <<"/">> \o path[2])

\* the values set_runtime is called with, per key
EnvDomain ==
  [k \in EnvKeySet |->
     CASE k = "g_start_time" -> {Str(<<"20240101">>)}
       [] k = "g_end_time" -> {Str(<<"20240103">>)}
       [] k = "g_time_granularity" -> {Str(<<"1d">>)}
       [] k = "g_use_cache" -> {PyTrue, PyFalse}
       [] k = "g_matrix_cache_folder" -> {Str(<<"cache">>)}
       [] k = "g_blow_cache" -> {PyTrue, PyFalse}
       [] OTHER -> {}]

SettableKeys == {k \in EnvKeySet : EnvDomain[k] # {}}

\* the keyword sets of the model's set_runtime calls: one key at a time, or
\* every key at once as the scripts of the repository do
RuntimeKwargs ==
  UNION {{kw \in [K -> UNION {EnvDomain[k] : k \in K}] : \A k \in K : kw[k] \in EnvDomain[k]}
         : K \in {{k} : k \in SettableKeys} \cup {SettableKeys}}

\* a set_runtime that starts from an empty configuration at every call
set_runtime_reset(g, kwargs) ==
  [k \in EnvKeySet |->
     IF k \in DOMAIN kwargs
     THEN IF k \in {"g_matrix_cache_folder", "g_data_folder"}
          THEN resolve_path(kwargs[k]) ELSE kwargs[k]
     ELSE None]

\* set_runtime(**kwargs) applied to the globals g
set_runtime(g, kwargs) ==
  [k \in EnvKeySet |->
     IF k \in DOMAIN kwargs
     THEN IF k \in {"g_matrix_cache_folder", "g_data_folder"}
          THEN resolve_path(kwargs[k]) ELSE kwargs[k]
     ELSE g[k]]

\* ------------------------------------------------------------------ actions
\* the non-Matrix arguments of the model: two of Prices' column names
Scalars == {Str(<<"c">>), Str(<<"o">>)}

\* the argument lists of the model's decorated calls
CallArgs == {<< <<a>>, <<>> >> : a \in Scalars}

\* the function the state machine calls
CalledFuncs == {fn \in Funcs : fn.id = 1}

\* a call whose fingerprint was not computed yet
ProbeCall(fn, rv, args, kwargs) ==
  [fn |-> fn, rv |-> rv, args |-> args, kwargs |-> kwargs, signature |-> "", pkl_file |-> <<>>]

NoProbe == [a |-> ProbeCall([id |-> 0, name |-> ""], UnsetEnv, <<>>, <<>>),
            b |-> ProbeCall([id |-> 0, name |-> ""], UnsetEnv, <<>>, <<>>),
            varied |-> "idle"]

CacheInit ==
  /\ env = UnsetEnv
  /\ dirs = {}
  /\ files = <<>>
  /\ last = NoCall
  /\ prev = NoCall
  /\ setlog = UnsetEnv

Init ==
  /\ CacheInit /\ probe = NoProbe /\ heap = <<>> /\ sigcalls = <<>>
  /\ DivIdle /\ CtorIdle /\ AsofIdle /\ RaceIdle /\ FetchIdle /\ ReflIdle

\* the keys other than the bypass flag
ConfigKeys == EnvKeySet \ {"g_blow_cache"}

\* set_runtime(**kwargs).  `last` and `prev` are kept for comparing calls made
\* under one configuration (the bypass flag apart): they are cleared when the
\* configuration changes.
SetRuntime ==
  \E kwargs \in RuntimeKwargs :
    /\ env' = set_runtime(env, kwargs)
    /\ setlog' = [k \in EnvKeySet |-> IF k \in DOMAIN kwargs THEN kwargs[k] ELSE setlog[k]]
    /\ IF \A k \in ConfigKeys : env'[k] = env[k]
       THEN UNCHANGED <<last, prev>>
       ELSE last' = NoCall /\ prev' = NoCall
    /\ UNCHANGED <<dirs, files, probe, heap, sigcalls, laterVars>>

\* two calls of one function with the same arguments
SameCall(c, d) == c.fn = d.fn /\ c.args = d.args /\ c.kwargs = d.kwargs

\* what `prev` keeps of a call: its inputs, its fingerprint and its outcome
Summary(c) ==
  [NoCall EXCEPT !.status = c.status, !.fn = c.fn, !.args = c.args,
                 !.kwargs = c.kwargs, !.rv = c.rv, !.invoked = c.invoked,
                 !.result = c.result, !.signature = c.signature]

\* the paths whose file was created, removed or rewritten with other bytes
Changed(F, G) ==
  {p \in DOMAIN F \cup DOMAIN G :
     ~(p \in DOMAIN F /\ p \in DOMAIN G /\ F[p] = G[p])}

\* one call of a decorated function, whole.  `last` records it, with the files
\* and directories it changed; `prev` keeps the call before it when that one
\* returned, with caching enabled, and was a call of the same function with the
\* same arguments.
Call ==
  \E fn \in CalledFuncs, a \in CallArgs, fres \in 0..MaxResults :
    \E out \in {Wrapper(fn, a[1], a[2], env, dirs, files, fres)} :
       /\ Cardinality(DOMAIN out.files) <= MaxFiles
       /\ last' = [out.call EXCEPT !.wrote = Changed(files, out.files),
                                   !.mkdirs = out.dirs \ dirs]
       /\ prev' = IF /\ last.status = "returned" /\ Truthy(last.rv.g_use_cache)
                     /\ SameCall(last, out.call)
                  THEN Summary(last) ELSE NoCall
       /\ dirs' = out.dirs
       /\ files' = out.files
       /\ UNCHANGED <<env, setlog, probe, heap, sigcalls, laterVars>>

\* a cache file is removed by hand.  `last` and `prev` are kept for comparing
\* calls between which the cache was left alone: they are cleared.
DeleteEntry ==
  \E p \in DOMAIN files :
    /\ files' = [q \in DOMAIN files \ {p} |-> files[q]]
    /\ last' = NoCall /\ prev' = NoCall
    /\ UNCHANGED <<env, dirs, setlog, probe, heap, sigcalls, laterVars>>

\* a cache file's bytes are damaged (a write that was cut short, a bad disk)
CorruptEntry ==
  \E p \in DOMAIN files :
    /\ files[p] # Corrupt
    /\ files' = [files EXCEPT ![p] = Corrupt]
    /\ last' = NoCall /\ prev' = NoCall
    /\ UNCHANGED <<env, dirs, setlog, probe, heap, sigcalls, laterVars>>

Next == SetRuntime \/ Call \/ DeleteEntry \/ CorruptEntry

Spec == Init /\ [][Next]_vars

\* ------------------------------------------- the fingerprint as a function
\* the start, end and granularity strings of the model's runtime
Starts == {<<"20240101">>, <<"20240102">>}
Ends == {<<"20240103">>, <<"20240104">>}
Granularities == {<<"1d">>, <<"1h">>}

\* the globals after the set_runtime call the scripts of the repository make
ProbeEnv(s, e, g) ==
  set_runtime(UnsetEnv,
              [g_start_time |-> Str(s), g_end_time |-> Str(e), g_time_granularity |-> Str(g),
               g_use_cache |-> PyTrue, g_matrix_cache_folder |-> Str(<<"cache">>)])

\* the cells of the Matrix arguments of the model
ProbeCells == {NaN, Num(1)}

\* a Matrix argument: one cell of content c
ProbeMatrix(c) ==
  <<"BaseMatrix",
    [BaseMatrixInit(<<"I:SPX">>, <<"20240101">>, <<"20240103">>, Str(<<"1d">>),
                    Str(<<"cache">>), <<"t1">>)
     EXCEPT !.underlying_df.values = << <<c>> >>]>>

\* the argument lists of the model: (args, kwargs), kwargs in call order
ProbeArgs ==
  {<< <<a>>, <<>> >> : a \in Scalars}
  \cup {<< <<>>, << <<"column", a>> >> >> : a \in Scalars}
  \cup {<< <<ProbeMatrix(c)>>, <<>> >> : c \in ProbeCells}
  \cup {<< <<>>, << <<"mx", ProbeMatrix(c)>>, <<"other", ProbeMatrix(d)>> >> >>
          : c \in ProbeCells, d \in ProbeCells}

\* the wrapper up to pkl_file: the call with its fingerprint and its cache path
Fingerprinted(c) ==
  LET signature == Fingerprint(c.fn, c.rv, c.args, WithRuntimeVars(c.kwargs, c.rv))
  IN [c EXCEPT !.signature = signature, !.pkl_file = PklFile(c.fn, c.rv, signature)]

\* the arguments of a call: positional ones by position, keyword ones by place
ArgSlots(c) ==
  {<<"args", i>> : i \in DOMAIN c.args} \cup {<<"kwargs", i>> : i \in DOMAIN c.kwargs}

SlotValue(c, s) == IF s[1] = "args" THEN c.args[s[2]] ELSE c.kwargs[s[2]][2]

WithSlot(c, s, v) ==
  IF s[1] = "args" THEN [c EXCEPT !.args[s[2]] = v]
  ELSE [c EXCEPT !.kwargs[s[2]] = <<c.kwargs[s[2]][1], v>>]

\* the same keywords written in the opposite order
Reversed(kwargs) == [i \in DOMAIN kwargs |-> kwargs[Len(kwargs) + 1 - i]]

FingerprintInit ==
  /\ CacheInit /\ heap = <<>> /\ sigcalls = <<>>
  /\ DivIdle /\ CtorIdle /\ AsofIdle /\ RaceIdle /\ FetchIdle /\ ReflIdle
  /\ \E fn \in Funcs, s \in Starts, e \in Ends, g \in Granularities, a \in ProbeArgs :
       probe = [NoProbe EXCEPT !.a = ProbeCall(fn, ProbeEnv(s, e, g), a[1], a[2]),
                               !.varied = "input"]

\* the first call: its fingerprint is computed
FirstCall ==
  /\ probe.varied = "input"
  /\ probe' = [probe EXCEPT !.a = Fingerprinted(@), !.varied = "none"]
  /\ UNCHANGED <<cacheVars, laterVars, heap, sigcalls>>

\* the second call is the first with one thing changed; its fingerprint is
\* computed
SecondCall(c, what) ==
  /\ probe.varied = "none"
  /\ probe' = [probe EXCEPT !.b = Fingerprinted(c), !.varied = what]
  /\ UNCHANGED <<cacheVars, laterVars, heap, sigcalls>>

\* another decorated function is called
OtherFunction ==
  \E fn \in Funcs : fn.id # probe.a.fn.id /\ SecondCall([probe.a EXCEPT !.fn = fn], "function")

\* set_runtime(g_start_time=s) comes between the calls
OtherStart ==
  \E s \in Starts :
    /\ Str(s) # probe.a.rv.g_start_time
    /\ SecondCall([probe.a EXCEPT !.rv = set_runtime(@, [g_start_time |-> Str(s)])], "start")

\* set_runtime(g_end_time=e) comes between the calls
OtherEnd ==
  \E e \in Ends :
    /\ Str(e) # probe.a.rv.g_end_time
    /\ SecondCall([probe.a EXCEPT !.rv = set_runtime(@, [g_end_time |-> Str(e)])], "end")

\* set_runtime(g_time_granularity=g) comes between the calls
OtherGranularity ==
  \E g \in Granularities :
    /\ Str(g) # probe.a.rv.g_time_granularity
    /\ SecondCall([probe.a EXCEPT !.rv = set_runtime(@, [g_time_granularity |-> Str(g)])],
                  "granularity")

\* one argument that is no Matrix has another value
OtherArgument ==
  \E s \in ArgSlots(probe.a), v \in Scalars :
    /\ ~IsBaseMatrix(SlotValue(probe.a, s))
    /\ v # SlotValue(probe.a, s)
    /\ SecondCall(WithSlot(probe.a, s, v), "argument")

\* one Matrix argument has another cell in its table
OtherMatrixContent ==
  \E s \in ArgSlots(probe.a), c \in ProbeCells :
    /\ IsBaseMatrix(SlotValue(probe.a, s))
    /\ c # SlotValue(probe.a, s)[2].underlying_df.values[1][1]
    /\ SecondCall(WithSlot(probe.a, s,
                           <<"BaseMatrix", [SlotValue(probe.a, s)[2]
                                            EXCEPT !.underlying_df.values[1][1] = c]>>),
                  "matrix content")

\* the keywords are written in the opposite order
ReorderKeywords ==
  /\ Len(probe.a.kwargs) > 1
  /\ SecondCall([probe.a EXCEPT !.kwargs = Reversed(@)], "keyword order")

FingerprintNext ==
  \/ FirstCall \/ OtherFunction \/ OtherStart \/ OtherEnd \/ OtherGranularity
  \/ OtherArgument \/ OtherMatrixContent \/ ReorderKeywords

FingerprintSpec == FingerprintInit /\ [][FingerprintNext]_vars

\* -------------------------------------------------------- the heap of objects
\* a Matrix object: its __dict__, and the identity of the DataFrame object its
\* _underlying_df is bound to
NewObject(m, dfid) == [obj |-> m, dfid |-> dfid]

\* the identity of a DataFrame object no Matrix of H is bound to
FreshDf(H) ==
  LET free == {n \in 1..(Cardinality(DOMAIN H) + 1) : \A p \in DOMAIN H : H[p].dfid # n}
  IN CHOOSE n \in free : \A k \in free : n <= k

\* a write into the DataFrame object of o: every Matrix bound to it sees df
MutateTable(H, o, df) ==
  [p \in DOMAIN H |->
     IF H[p].dfid = H[o].dfid THEN [H[p] EXCEPT !.obj.underlying_df = df] ELSE H[p]]

\* the underlying_df setter: _underlying_df of o alone is rebound
SetTable(H, o, df, dfid) ==
  [H EXCEPT ![o] = [@ EXCEPT !.obj.underlying_df = df, !.dfid = dfid]]

\* a binding that reuses the DataFrame object of a Matrix the program holds
Bind_shared(H, t, m) ==
  [p \in DOMAIN H \cup {t} |->
     IF p = t
     THEN NewObject(m, IF DOMAIN H \ {t} = {} THEN 1
                       ELSE H[CHOOSE q \in DOMAIN H \ {t} : TRUE].dfid)
     ELSE H[p]]

\* t = <a new Matrix m>: variable t is bound to the new object, whose table is
\* a new DataFrame object
Bind(H, t, m) ==
  LET others == [p \in DOMAIN H \ {t} |-> H[p]]
  IN [p \in DOMAIN H \cup {t} |-> IF p = t THEN NewObject(m, FreshDf(others)) ELSE H[p]]

\* the record of the last signature() call, unless it was about variable t
Forget(S, t) == SelectSeq(S, LAMBDA c : c.obj # t)

\* ------------------------------------------------- the Matrix state machine
\* the universe and the time grid the model's Matrices are constructed over
MxUniverse == <<"I:SPX">>
MxTimeList == <<"t1", "t2">>
\* the end times of the model's Matrices
MxEnds == {<<"20240103">>}
\* the numbers the model writes into cells and uses as scalar operands
MxScalars == {Num(1)}
\* the column the model assigns to
MxKeys == {"I:SPX"}
\* the program's variables that hold Matrices
MxVars == {"m", "n"}
\* the variable the Matrices that operations return are assigned to
MxResultVars == {"n"}

\* construct(...): BaseMatrix(universe, start, end, granularity, folder, time_list)
Construct ==
  \E e \in MxEnds, t \in MxVars :
    /\ heap' = Bind(heap, t, BaseMatrixInit(MxUniverse, <<"20240101">>, e, Str(<<"1d">>),
                                            Str(<<"cache">>), MxTimeList))
    /\ sigcalls' = Forget(sigcalls, t)
    /\ UNCHANGED <<cacheVars, laterVars, probe>>

\* every cell of the table is missing or a number of the model's range.  Zero
\* is outside it: float64 has two zeros with different bytes, and the model's
\* numbers have one.
InRange(df) ==
  \A i \in DOMAIN df.values : \A j \in DOMAIN df.values[i] :
    LET c == df.values[i][j]
    IN c = NaN \/ (c[1] = "num" /\ c[2] # 0 /\ c[2] >= 0 - MaxCell /\ c[2] <= MaxCell)

\* m.iloc[i, j] = v through the indexer proxy of __getattr__
SetCell ==
  \E o \in DOMAIN heap, v \in MxScalars :
    \E i \in DOMAIN heap[o].obj.underlying_df.values :
      \E j \in DOMAIN heap[o].obj.underlying_df.values[i] :
        /\ heap' = MutateTable(heap, o, df_set_cell(heap[o].obj.underlying_df, i, j, v))
        /\ UNCHANGED <<cacheVars, laterVars, probe, sigcalls>>

\* m[key] = v: BaseMatrix.__setitem__
SetColumn ==
  \E o \in DOMAIN heap, key \in MxKeys, v \in MxScalars :
    /\ heap' = MutateTable(heap, o, df_setitem(heap[o].obj.underlying_df, key, v))
    /\ UNCHANGED <<cacheVars, laterVars, probe, sigcalls>>

\* m.underlying_df = value, for a table the caller built over m's own labels or
\* for the table of another Matrix
ReplaceTable ==
  \E o \in DOMAIN heap :
    \/ \E v \in MxScalars :
         /\ heap' = SetTable(heap, o,
                             df_fillna(NanFrame(heap[o].obj.time_list, heap[o].obj.universe), v),
                             FreshDf(heap))
         /\ UNCHANGED <<cacheVars, laterVars, probe, sigcalls>>
    \/ \E p \in DOMAIN heap \ {o} :
         /\ heap' = SetTable(heap, o, heap[p].obj.underlying_df, heap[p].dfid)
         /\ UNCHANGED <<cacheVars, laterVars, probe, sigcalls>>

\* the argument the model passes to a forwarded method
MethodArg(name) == IF name = "head" THEN 1 ELSE Num(1)

\* m.head(1), m.fillna(1), m.fillna(1, inplace=True), m.isetitem(0, 1): a call
\* forwarded by __getattr__.  A Matrix it returns is bound to variable t when
\* it holds a table; the caller drops the one that holds None.
Delegate ==
  \E o \in DOMAIN heap, name \in Methods, inplace \in BOOLEAN :
   \E t \in MxResultVars \cup {o} :
    LET arg == MethodArg(name)
        r == BaseMatrix_getattr_wrapper(heap[o].obj, name, arg, inplace)
        H == MutateTable(heap, o, r.df)
    IN /\ inplace => HasInplace(name)
       /\ IF r.self \/ DfMethod(name, heap[o].obj.underlying_df, arg, inplace).result = None
          THEN /\ t = o
               /\ heap' = H
               /\ UNCHANGED sigcalls
          ELSE /\ t \in MxResultVars
               /\ heap' = Bind(H, t, r.bm[2])
               /\ sigcalls' = Forget(sigcalls, t)
       /\ UNCHANGED <<cacheVars, laterVars, probe>>

\* m + s, m - s, m * s, m + n, m - n, m * n: the result is bound to variable t.
\* A Matrix operand carries the receiver's labels.
Arithmetic ==
  \E o \in DOMAIN heap, op \in {"add", "sub", "mul"}, t \in MxResultVars :
    \E other \in MxScalars \cup {<<"BaseMatrix", heap[p].obj>> : p \in DOMAIN heap} :
      LET bm == BaseMatrix_apply_op(heap[o].obj, other, op)
      IN /\ IsBaseMatrix(other) =>
              /\ other[2].underlying_df.index = heap[o].obj.underlying_df.index
              /\ other[2].underlying_df.columns = heap[o].obj.underlying_df.columns
         /\ InRange(bm.underlying_df)
         /\ heap' = Bind(heap, t, bm)
         /\ sigcalls' = Forget(sigcalls, t)
         /\ UNCHANGED <<cacheVars, laterVars, probe>>

\* -m: the result is bound to variable t
Negate ==
  \E o \in DOMAIN heap, t \in MxResultVars :
    /\ heap' = Bind(heap, t, BaseMatrix_neg(heap[o].obj))
    /\ sigcalls' = Forget(sigcalls, t)
    /\ UNCHANGED <<cacheVars, laterVars, probe>>

\* what sigcalls keeps of a call of m.update_signature()
SigCall(o, m, digest) ==
  [obj |-> o, kind |-> m.matrix_type, start |-> m.start_time, end |-> m.end_time,
   table |-> m.underlying_df.values, digest |-> digest]

\* m.update_signature(): the digest is computed and returned.  The attribute
\* `signature` it is also left in is read by nothing in the program; sigcalls
\* keeps the one of the last call.
Signature ==
  \E o \in DOMAIN heap :
    LET digest == BaseMatrix_update_signature(heap[o].obj)
    IN /\ sigcalls' = <<SigCall(o, heap[o].obj, digest)>>
       /\ UNCHANGED <<cacheVars, laterVars, probe, heap>>

MatrixInit ==
  /\ CacheInit /\ probe = NoProbe /\ heap = <<>> /\ sigcalls = <<>>
  /\ DivIdle /\ CtorIdle /\ AsofIdle /\ RaceIdle /\ FetchIdle /\ ReflIdle

MatrixNext ==
  \/ Construct \/ SetCell \/ SetColumn \/ ReplaceTable \/ Delegate
  \/ Arithmetic \/ Negate \/ Signature

MatrixSpec == MatrixInit /\ [][MatrixNext]_vars

\* ----------------------------------------------------- the cache decorator
Made(c) == c.status # "none"
Caching(c) == Truthy(c.rv.g_use_cache)
Bypass(c) == Truthy(c.rv.g_blow_cache)
\* the call reached the cache and found a file at its path
EntryExists(c) == c.entry # None
SignatureOf(obj) == BaseMatrix_update_signature(obj[2])

\* C1: a call with caching enabled and the bypass flag unset that finds an
\* entry at its path does not invoke the wrapped function, and returns what
\* the entry deserializes to.
C1_HitShortCircuits ==
  (Made(last) /\ Caching(last) /\ ~Bypass(last) /\ EntryExists(last))
  => /\ ~last.invoked
     /\ ReadEntry(last.entry[2])[1] = "ok"
        => last.status = "returned" /\ last.result = ReadEntry(last.entry[2])[2]

\* a hit on an entry that an earlier call stored
C1_Witness ==
  /\ Made(last) /\ Caching(last) /\ ~Bypass(last) /\ EntryExists(last)
  /\ last.status = "returned" /\ last.result[1] = "BaseMatrix"

\* the second of two calls of one function with the same arguments under the
\* same runtime, caching enabled, bypass unset, the cache left alone in between
Repeated ==
  /\ Made(prev) /\ Made(last) /\ SameCall(prev, last) /\ prev.rv = last.rv
  /\ Caching(last) /\ ~Bypass(last)

C4_BypassResultServed ==
  (/\ Made(prev) /\ Made(last) /\ SameCall(prev, last)
   /\ \A k \in ConfigKeys : prev.rv[k] = last.rv[k]
   /\ Caching(prev) /\ Bypass(prev) /\ prev.status = "returned"
   /\ ~Bypass(last))
  => /\ EntryExists(last) /\ ~last.invoked
     /\ last.status = "returned" /\ last.result = prev.result

\* C5: a call with caching enabled and bypass unset whose entry exists but
\* cannot be deserialized ends in an error: the wrapped function is not
\* invoked, no file is written, nothing is returned.
C5_CorruptEntrySurfaces ==
  (/\ Made(last) /\ Caching(last) /\ ~Bypass(last) /\ EntryExists(last)
   /\ last.entry[2] = Corrupt)
  => /\ last.status = "error"
     /\ ~last.invoked
     /\ last.wrote = {}
     /\ last.result = None
     /\ files[last.pkl_file] = Corrupt

C5_Witness ==
  /\ Made(last) /\ Caching(last) /\ ~Bypass(last) /\ EntryExists(last)
  /\ last.entry[2] = Corrupt /\ last.status = "error"

RequiredKeys ==
  {"g_start_time", "g_end_time", "g_time_granularity", "g_matrix_cache_folder"}

\* C6 (as claimed): a call made while one of the required fields is unset
\* fails before the wrapped function is invoked and before any file or
\* directory is created, whether or not caching is enabled.
C6_UnsetFieldFails ==
  (Made(last) /\ \E k \in RequiredKeys : last.rv[k] = None)
  => /\ last.status = "error" /\ ~last.invoked
     /\ last.wrote = {} /\ last.mkdirs = {}

\* the path the wrapper derives from a call's own inputs
OwnPath(c) ==
  PklFile(c.fn, c.rv, Fingerprint(c.fn, c.rv, c.args, WithRuntimeVars(c.kwargs, c.rv)))

\* C7: a call changes no file but the one at the path derived from its own
\* fingerprint, and that one only when caching is enabled and the call missed
\* or bypassed; a hit changes no file; a call with caching disabled changes no
\* file and serves nothing from the cache.
C7_OnlyOwnEntryWritten ==
  Made(last) =>
    /\ \A p \in last.wrote : p = OwnPath(last)
    /\ last.wrote # {} =>
         /\ Caching(last) /\ last.invoked
         /\ ~EntryExists(last) \/ Bypass(last)
    /\ (Caching(last) /\ ~Bypass(last) /\ EntryExists(last)) => last.wrote = {}
    /\ ~Caching(last) =>
         /\ last.wrote = {} /\ last.mkdirs = {}
         /\ last.status = "returned" => last.invoked

\* a miss that wrote its entry beside another call's entry
C7_Witness ==
  /\ Made(last) /\ last.wrote = {last.pkl_file}
  /\ \E p \in DOMAIN files : p # last.pkl_file

\* ------------------------------------------------ the fingerprint's inputs
\* C3 (as claimed): two calls that differ in exactly one of the function, the
\* start, the end, the granularity, one non-Matrix argument or the table
\* content of one Matrix argument have different fingerprints and different
\* cache paths.
C3_OneDifferenceChangesFingerprint ==
  probe.varied \in {"function", "start", "end", "granularity", "argument", "matrix content"}
  => /\ probe.a.signature # probe.b.signature
     /\ probe.a.pkl_file # probe.b.pkl_file

\* C8 (as claimed): two calls that pass the same keyword arguments, Matrices
\* among them, in a different order have the same fingerprint and the same
\* cache path.
C8_KeywordOrderIrrelevant ==
  probe.varied = "keyword order"
  => /\ probe.a.signature = probe.b.signature
     /\ probe.a.pkl_file = probe.b.pkl_file

\* ------------------------------------------------------------- the Matrix
\* two tables of one shape that differ in exactly one cell
OneCellDiffers(T, U) ==
  /\ Len(T) = Len(U)
  /\ \A i \in DOMAIN T : Len(T[i]) = Len(U[i])
  /\ Cardinality({<<i, j>> \in UNION {{<<i, j>> : j \in DOMAIN T[i]} : i \in DOMAIN T}
                    : T[i][j] # U[i][j]}) = 1

\* two signature() calls on Matrices of one kind, start and end
SameSeries(c, d) == c.kind = d.kind /\ c.start = d.start /\ c.end = d.end

\* the digest signature() returns for the Matrix held by variable p
SignatureNow(p) == BaseMatrix_update_signature(heap[p].obj)

\* C9: signature() is recomputed from the table as it is at the call.  After a
\* call on a Matrix, a call on any Matrix of the same kind, start and end (the
\* same Matrix after any mutations, or one constructed independently) returns
\* the same digest when its table content equals the content the first call
\* saw, and another digest when the contents differ in exactly one cell.
C9_SignatureTracksContent ==
  \A i \in DOMAIN sigcalls : \A p \in DOMAIN heap :
    LET c == sigcalls[i]
        d == SigCall(p, heap[p].obj, SignatureNow(p))
    IN SameSeries(c, d) =>
         /\ c.table = d.table => d.digest = c.digest
         /\ OneCellDiffers(c.table, d.table) => d.digest # c.digest

\* signature() was called on a Matrix and one cell of its table was changed
\* since; a second Matrix, constructed on its own, has the content the call saw
C9_Witness ==
  /\ sigcalls # <<>>
  /\ sigcalls[1].obj \in DOMAIN heap
  /\ OneCellDiffers(sigcalls[1].table, heap[sigcalls[1].obj].obj.underlying_df.values)
  /\ \E p \in DOMAIN heap \ {sigcalls[1].obj} :
       /\ heap[p].dfid # heap[sigcalls[1].obj].dfid
       /\ SameSeries(sigcalls[1], SigCall(p, heap[p].obj, ""))
       /\ heap[p].obj.underlying_df.values = sigcalls[1].table

\* C10 (as claimed): the table of every Matrix has the Matrix's time_list as
\* its row index and the Matrix's universe as its columns, one row per grid
\* point and one cell per universe member in every row.
C10_TableMatchesGridAndUniverse ==
  \A o \in DOMAIN heap :
    LET m == heap[o].obj
    IN /\ m.underlying_df.index = m.time_list
       /\ m.underlying_df.columns = m.universe
       /\ Len(m.underlying_df.values) = Len(m.time_list)
       /\ \A i \in DOMAIN m.underlying_df.values :
            Len(m.underlying_df.values[i]) = Len(m.universe)

\* ------------------------------------------------- arithmetic and negation
\* C11: a binary operation or a negation binds its result to a new Matrix
\* whose DataFrame object no other Matrix is bound to, and leaves every operand
\* (table, metadata and DataFrame object) as it was; and a write into one
\* DataFrame object changes only the Matrices bound to that object, so that a
\* later write into the result never shows through an operand, nor the reverse.
C11_ResultTableNotShared ==
  [][ /\ (Arithmetic \/ Negate) =>
           \E t \in MxResultVars :
             /\ t \in DOMAIN heap'
             /\ \A p \in DOMAIN heap \ {t} : p \in DOMAIN heap' /\ heap'[p] = heap[p]
             /\ \A p \in DOMAIN heap' \ {t} : heap'[p].dfid # heap'[t].dfid
      /\ (SetCell \/ SetColumn) =>
           \A p, q \in DOMAIN heap :
             heap'[p] # heap[p] /\ heap'[q] # heap[q] => heap[p].dfid = heap[q].dfid
    ]_vars

\* the result of -m is held next to m, and a cell of it was since overwritten
C11_Witness ==
  /\ DOMAIN heap = {"m", "n"}
  /\ heap["m"].dfid # heap["n"].dfid
  /\ heap["m"].obj.underlying_df.values = << <<Num(1)>>, <<Num(1)>> >>
  /\ heap["n"].obj.underlying_df.values = << <<Num(1)>>, <<Num(0 - 1)>> >>

\* ------------------------------------------------------- forwarded methods
\* C12: whatever forwarded call is made on a Matrix the program holds, a call
\* that changes the receiver's table returns the receiver itself, and a call
\* that returns another Matrix leaves the receiver's table as it was and gives
\* the new Matrix the receiver's kind, universe, start, end, granularity and
\* time grid.
C12_MutatingCallReturnsReceiver ==
  \A o \in DOMAIN heap, name \in Methods, inplace \in BOOLEAN :
    (inplace => HasInplace(name)) =>
      LET m == heap[o].obj
          r == BaseMatrix_getattr_wrapper(m, name, MethodArg(name), inplace)
      IN /\ r.df # m.underlying_df => r.self
         /\ ~r.self =>
              /\ r.df = m.underlying_df
              /\ r.bm[2].matrix_type = m.matrix_type
              /\ r.bm[2].universe = m.universe
              /\ r.bm[2].start_time = m.start_time
              /\ r.bm[2].end_time = m.end_time
              /\ r.bm[2].time_granularity = m.time_granularity
              /\ r.bm[2].time_list = m.time_list

\* ----------------------------------------------------------------- division
\* the cells of the dividend's table, and of the divisors
DividendCells == {NaN, Num(0), Num(2), Num(0 - 2)}
DivisorCells == {NaN, Num(0), Num(1), Num(2), Num(0 - 1)}

\* the tables of the model's divisions: one column, one or two rows
DivTable(cells) ==
  [index |-> SubSeq(MxTimeList, 1, Len(cells)), columns |-> MxUniverse,
   values |-> [i \in DOMAIN cells |-> <<cells[i]>>]]

\* a Matrix over the grid holding the table
DivMatrix(cells) ==
  [BaseMatrixInit(MxUniverse, <<"20240101">>, <<"20240103">>, Str(<<"1d">>),
                  Str(<<"cache">>), SubSeq(MxTimeList, 1, Len(cells)))
   EXCEPT !.underlying_df = DivTable(cells)]

\* sequences of one or two cells
CellSeqs(C) == {<<c>> : c \in C} \cup {<<c, d>> : c \in C, d \in C}

\* what the model divides by: a Matrix, a raw table, a Series or an array with
\* one entry per row, a scalar
Divisors ==
  {<<"BaseMatrix", DivMatrix(v)>> : v \in CellSeqs(DivisorCells)}
  \cup {<<"DataFrame", DivTable(v)>> : v \in CellSeqs(DivisorCells)}
  \cup {<<k, v>> : k \in {"Series", "ndarray"}, v \in {w \in CellSeqs(DivisorCells) : Len(w) = 2}}
  \cup DivisorCells

DivisionInit ==
  /\ CacheInit /\ probe = NoProbe /\ heap = <<>> /\ sigcalls = <<>>
  /\ CtorIdle /\ AsofIdle /\ RaceIdle /\ FetchIdle /\ ReflIdle
  /\ \E v \in {w \in CellSeqs(DividendCells) : Len(w) = 2}, other \in Divisors :
       div = [m |-> DivMatrix(v), other |-> other, done |-> FALSE, result |-> None]

\* r = m / other
Divide ==
  /\ ~div.done
  /\ div' = [div EXCEPT !.done = TRUE, !.result = BaseMatrix_truediv(div.m, div.other)]
  /\ UNCHANGED <<cacheVars, probe, heap, sigcalls, ctor, asof, race, fetch, refl>>

DivisionNext == Divide

DivisionSpec == DivisionInit /\ [][DivisionNext]_vars

\* the divisor of cell (i, 1) of the dividend
DivisorAt(other, i) ==
  IF IsBaseMatrix(other) THEN other[2].underlying_df.values[i][1]
  ELSE IF other[1] = "DataFrame" THEN other[2].values[i][1]
  ELSE IF other[1] \in {"Series", "ndarray"} THEN other[2][i]
  ELSE other

\* C13: whatever the kind of divisor, a quotient that was returned holds no
\* infinite cell: a cell whose divisor is zero holds the missing marker, and so
\* does a cell whose divisor is a missing cell of a Matrix.
C13_NoInfiniteQuotient ==
  (div.done /\ div.result[1] = "BaseMatrix") =>
     LET R == div.result[2].underlying_df.values
     IN \A i \in DOMAIN R :
          /\ R[i][1][1] # "inf"
          /\ DivisorAt(div.other, i) = Num(0) => R[i][1] = NaN
          /\ (IsBaseMatrix(div.other) /\ DivisorAt(div.other, i) = NaN) => R[i][1] = NaN

\* ------------------------------------------------------------ construction
\* the dates the model constructs Matrices over, in calendar order
Days == <<"2024-01-01", "2024-01-02", "2024-01-03">>

\* pd.to_datetime(d) as a day number
DayOf(d) == CHOOSE i \in DOMAIN Days : Days[i] = d

\* the keys of granularity_map of _generate_time_list, which are also the list
\* PolygonOHLCDataloader.__init__ and MockDataloader.__init__ accept
Granularities_valid == {"1m", "5m", "1h", "4h", "1d"}

\* the granularities the model passes to constructors
CtorGranularities == Granularities_valid \cup {"2h", "1w"}

\* the minutes between two points of pd.date_range for the frequency that
\* granularity_map gives the granularity
StepMinutes(g) ==
  CASE g = "1m" -> 1 [] g = "5m" -> 5 [] g = "1h" -> 60 [] g = "4h" -> 240 [] g = "1d" -> 1440

\* pd.date_range(start, end, freq, inclusive='both'): minutes counted from the
\* first of Days; empty when start is after end
date_range(start, end, g) ==
  LET lo == (DayOf(start) - 1) * 1440
      hi == (DayOf(end) - 1) * 1440
  IN IF lo > hi THEN <<>>
     ELSE [k \in 1..((hi - lo) \div StepMinutes(g) + 1) |-> lo + (k - 1) * StepMinutes(g)]

\* PolygonOHLCDataloader.__init__
PolygonOHLCDataloader_init(api_key, time_granularity) ==
  IF ~api_key THEN <<"raise", "ValueError">>
  ELSE IF time_granularity \notin Granularities_valid THEN <<"raise", "ValueError">>
  ELSE <<"ok", [api_key |-> api_key, time_granularity |-> time_granularity]>>

\* PolygonDataMatrix.__init__, statement by statement on the object's __dict__.
\* api_key tells whether POLYGON_API_KEY is set in the environment.
PolygonDataMatrix_init(start_time, end_time, time_granularity, matrix_cache_folder, api_key) ==
  LET self1 == [matrix_type |-> "Polygon"]
  IN IF time_granularity \notin Granularities_valid THEN <<"raise", "ValueError">>
     ELSE
       LET self2 == [time_list |-> date_range(start_time[1], end_time[1], time_granularity)] @@ self1
           self3 == BaseMatrixInit(<<"I:SPX">>, start_time, end_time, Str(<<time_granularity>>),
                                   matrix_cache_folder, self2.time_list) @@ self2
           dl == PolygonOHLCDataloader_init(api_key, time_granularity)
       IN IF dl[1] = "raise" THEN dl
          ELSE <<"ok", [dl |-> dl[2]] @@ self3>>

\* MockDataloader.__init__
MockDataloader_init(start_time, end_time, time_granularity) ==
  IF DayOf(start_time[1]) >= DayOf(end_time[1]) THEN <<"raise", "ValueError">>
  ELSE IF time_granularity \notin Granularities_valid THEN <<"raise", "ValueError">>
  ELSE <<"ok", [start_time |-> start_time, end_time |-> end_time,
                time_granularity |-> time_granularity]>>

\* MockMatrix.__init__, with get_universe() and get_time_list() returning the
\* universe and the grid given.  Its last statement returns the Series that
\* generate() builds, and a value returned from __init__ is a TypeError.
MockMatrix_init(start_date, end_date, time_granularity, matrix_cache_folder, universe, time_list) ==
  LET dl == MockDataloader_init(start_date, end_date, time_granularity)
  IN IF dl[1] = "raise" THEN dl ELSE <<"raise", "TypeError">>

\* FinlabDataMatrix.__init__, with get_universe() and get_time_list() returning
\* the universe and the grid given and DataSelector() constructed without error
FinlabDataMatrix_init(start_date, end_date, time_granularity, matrix_cache_folder, universe, time_list) ==
  LET self1 == [matrix_type |-> "FinlabMatrix"]
      self2 == [time_list |-> time_list, universe |-> universe] @@ self1
      self3 == BaseMatrixInit(universe, start_date, end_date, Str(<<time_granularity>>),
                              matrix_cache_folder, time_list) @@ self2
  IN <<"ok", [dl |-> <<"DataSelector">>] @@ self3>>

\* the classes of Matrix, and the tag each sets on itself first
MatrixClasses == {"BaseMatrix", "PolygonDataMatrix", "MockMatrix", "FinlabDataMatrix"}

KindTag(cls) ==
  CASE cls = "BaseMatrix" -> "BaseMatrix"
    [] cls = "PolygonDataMatrix" -> "Polygon"
    [] cls = "MockMatrix" -> "MockMatrix"
    [] cls = "FinlabDataMatrix" -> "FinlabMatrix"

\* cls(...): the object, or the error
NewMatrix(cls, start, end, g, api_key) ==
  CASE cls = "BaseMatrix" ->
         <<"ok", BaseMatrixInit(MxUniverse, start, end, Str(<<g>>), Str(<<"cache">>), MxTimeList)>>
    [] cls = "PolygonDataMatrix" ->
         PolygonDataMatrix_init(start, end, g, Str(<<"cache">>), api_key)
    [] cls = "MockMatrix" ->
         MockMatrix_init(start, end, g, Str(<<"cache">>), MxUniverse, MxTimeList)
    [] cls = "FinlabDataMatrix" ->
         FinlabDataMatrix_init(start, end, g, Str(<<"cache">>), MxUniverse, MxTimeList)

\* the number of points date_range gives
GridLen(start, end, g) ==
  IF g \in Granularities_valid THEN Len(date_range(start, end, g)) ELSE 0

ConstructInit ==
  /\ CacheInit /\ probe = NoProbe /\ heap = <<>> /\ sigcalls = <<>>
  /\ DivIdle /\ AsofIdle /\ RaceIdle /\ FetchIdle /\ ReflIdle
  /\ \E cls \in MatrixClasses, s \in DOMAIN Days, e \in DOMAIN Days,
        g \in CtorGranularities, k \in BOOLEAN :
       /\ GridLen(Days[s], Days[e], g) <= MaxGrid
       /\ ctor = [cls |-> cls, start |-> <<Days[s]>>, end |-> <<Days[e]>>, granularity |-> g,
                  api_key |-> k, status |-> "input", obj |-> None, error |-> "",
                  digest |-> ""]

\* m = cls(start, end, granularity, ...)
NewObjectOfClass ==
  /\ ctor.status = "input"
  /\ LET r == NewMatrix(ctor.cls, ctor.start, ctor.end, ctor.granularity, ctor.api_key)
     IN ctor' = IF r[1] = "ok"
                THEN [ctor EXCEPT !.status = "constructed", !.obj = <<"object", r[2]>>]
                ELSE [ctor EXCEPT !.status = "raised", !.error = r[2]]
  /\ UNCHANGED <<cacheVars, probe, heap, sigcalls, div, asof, race, fetch, refl>>

\* m.update_signature() on the object constructed: the digest is kept
SignatureOfNew ==
  /\ ctor.status = "constructed"
  /\ ctor' = [ctor EXCEPT !.status = "signed",
                          !.digest = BaseMatrix_update_signature(ctor.obj[2])]
  /\ UNCHANGED <<cacheVars, probe, heap, sigcalls, div, asof, race, fetch, refl>>

ConstructNext == NewObjectOfClass \/ SignatureOfNew

ConstructSpec == ConstructInit /\ [][ConstructNext]_vars

\* C14: a construction with start >= end, or with a granularity outside
\* {1m, 5m, 1h, 4h, 1d}, raises and yields no Matrix, whatever the class.
C14_BadArgumentsRejected ==
  (/\ ctor.status # "input"
   /\ \/ DayOf(ctor.start[1]) >= DayOf(ctor.end[1])
      \/ ctor.granularity \notin Granularities_valid)
  => ctor.status = "raised"

\* C18: a Matrix that was constructed carries the tag of its class as its kind,
\* and the digest update_signature() gives for it is computed from that tag.
C18_KindIsSubtypeTag ==
  /\ ctor.status \in {"constructed", "signed"} =>
       ctor.obj[2].matrix_type = KindTag(ctor.cls)
  /\ ctor.status = "signed" =>
       ctor.digest = sha256(Join(<<"_">>, << <<KindTag(ctor.cls)>>, ctor.start, ctor.end >>)
                            \o DfBytes(ctor.obj[2].underlying_df))

\* ---------------------------------------------------- get_ohlcv's alignment
\* rows.sort_values('timestamp'): the rows in ascending order of timestamp
RECURSIVE sort_values(_)
sort_values(rows) ==
  IF rows = <<>> THEN <<>>
  ELSE LET k == CHOOSE i \in DOMAIN rows : \A j \in DOMAIN rows : rows[i].timestamp <= rows[j].timestamp
       IN <<rows[k]>> \o sort_values(SubSeq(rows, 1, k - 1) \o SubSeq(rows, k + 1, Len(rows)))

\* a join that looks forward instead: the first right row at or after each
\* left timestamp
RECURSIVE merge_asof_forward(_, _, _, _)
merge_asof_forward(left, right, i, pos) ==
  IF i > Len(left) THEN <<>>
  ELSE IF pos < Len(right) /\ right[pos + 1].timestamp < left[i]
       THEN merge_asof_forward(left, right, i, pos + 1)
       ELSE <<[timestamp |-> left[i],
               value |-> IF pos >= Len(right) THEN NaN ELSE right[pos + 1].value]>>
            \o merge_asof_forward(left, right, i + 1, pos)

\* pd.merge_asof(left, right, on='timestamp', direction='backward',
\* allow_exact_matches=True) over sorted keys: one pass over the left rows with
\* a cursor into the right rows that only moves on.  pos is the number of
\* right rows at or before the left row in hand.
RECURSIVE merge_asof(_, _, _, _)
merge_asof(left, right, i, pos) ==
  IF i > Len(left) THEN <<>>
  ELSE IF pos < Len(right) /\ right[pos + 1].timestamp <= left[i]
       THEN merge_asof(left, right, i, pos + 1)
       ELSE <<[timestamp |-> left[i],
               value |-> IF pos = 0 THEN NaN ELSE right[pos].value]>>
            \o merge_asof(left, right, i + 1, pos)

\* series.reindex(labels, fill_value=np.nan) of rows indexed by timestamp
reindex(rows, labels) ==
  [i \in DOMAIN labels |->
     IF \E k \in DOMAIN rows : rows[k].timestamp = labels[i]
     THEN rows[CHOOSE k \in DOMAIN rows : rows[k].timestamp = labels[i]].value
     ELSE NaN]

\* PolygonDataMatrix.get_ohlcv from the series that dl.generate returned on:
\* the Matrix with its table replaced by the aligned one
PolygonDataMatrix_get_ohlcv(m, ohlcv_df) ==
  LET aligned_df == NanFrame(m.time_list, m.universe)
  IN IF ohlcv_df = <<>> THEN [m EXCEPT !.underlying_df = aligned_df]
     ELSE LET time_list_df == [i \in DOMAIN m.time_list |-> [timestamp |-> m.time_list[i]]]
              lefts == sort_values(time_list_df)
              merged_df == merge_asof([i \in DOMAIN lefts |-> lefts[i].timestamp],
                                      sort_values(ohlcv_df), 1, 0)
          IN [m EXCEPT !.underlying_df =
                df_setitem_series(aligned_df, "I:SPX", reindex(merged_df, m.time_list))]

\* the instants of the model's time line
Times == 0..MaxTime

\* the ascending sequence of the members of a set of instants
RECURSIVE Ascending(_)
Ascending(S) ==
  IF S = {} THEN <<>>
  ELSE LET lo == CHOOSE t \in S : \A u \in S : t <= u IN <<lo>> \o Ascending(S \ {lo})

\* the prices the vendor's rows carry
ObsValues == {Num(5), Num(7)}

\* the series dl.generate returns: at most MaxObs rows, ascending in time, no
\* timestamp twice
ObsSeries ==
  UNION {{[i \in DOMAIN Ascending(S) |-> [timestamp |-> Ascending(S)[i], value |-> v[Ascending(S)[i]]]]
          : v \in [S -> ObsValues]}
         : S \in {X \in SUBSET Times : Cardinality(X) <= MaxObs}}

\* the time grids: ascending, not empty
Grids == {Ascending(S) : S \in (SUBSET Times) \ {{}}}

AlignInit ==
  /\ CacheInit /\ probe = NoProbe /\ heap = <<>> /\ sigcalls = <<>>
  /\ DivIdle /\ CtorIdle /\ RaceIdle /\ FetchIdle /\ ReflIdle
  /\ \E grid \in Grids, obs \in ObsSeries :
       asof = [m |-> BaseMatrixInit(<<"I:SPX">>, <<"2024-01-01">>, <<"2024-01-03">>,
                                    Str(<<"1d">>), Str(<<"cache">>), grid),
               obs |-> obs, done |-> FALSE]

\* m.get_ohlcv(column)
GetOhlcv ==
  /\ ~asof.done
  /\ asof' = [asof EXCEPT !.m = PolygonDataMatrix_get_ohlcv(asof.m, asof.obs), !.done = TRUE]
  /\ UNCHANGED <<cacheVars, probe, heap, sigcalls, div, ctor, race, fetch, refl>>

AlignNext == GetOhlcv

AlignSpec == AlignInit /\ [][AlignNext]_vars

\* C15: after get_ohlcv, the cell at each grid timestamp t is the value of the
\* observation with the greatest timestamp <= t, and the missing marker when
\* no observation is at or before t (so for every t when there is none at all).
C15_BackwardAsOf ==
  asof.done =>
    \A i \in DOMAIN asof.m.time_list :
      LET t == asof.m.time_list[i]
          before == {k \in DOMAIN asof.obs : asof.obs[k].timestamp <= t}
          cell == asof.m.underlying_df.values[i][1]
      IN /\ asof.m.underlying_df.index[i] = t
         /\ before = {} => cell = NaN
         /\ before # {} =>
              \E k \in before :
                /\ \A j \in before : asof.obs[j].timestamp <= asof.obs[k].timestamp
                /\ cell = asof.obs[k].value

\* grid [1, 2, 3] with the one observation (2, 5) has given [missing, 5, 5]
C15_Witness ==
  /\ asof.done
  /\ asof.m.time_list = <<1, 2, 3>>
  /\ asof.obs = <<[timestamp |-> 2, value |-> Num(5)]>>
  /\ asof.m.underlying_df.values = << <<NaN>>, <<Num(5)>>, <<Num(5)>> >>

\* ------------------------------------------------- the runtime at call time
\* the snapshot the call in record c was handed is rv, and c's fingerprint was
\* computed from rv
HandedAndFingerprinted(c, rv) ==
  /\ c.rv = rv
  /\ c.invoked =>
       \E i \in DOMAIN c.passed : c.passed[i] = <<"runtime_vars", <<"RuntimeEnv", rv>>>>
  /\ c.signature # "" =>
       c.signature = Fingerprint(c.fn, rv, c.args, WithRuntimeVars(c.kwargs, rv))

\* C16 as the specification states it: the snapshot of a decorated call holds,
\* for every key, the very value the latest set_runtime naming the key passed
\* (None when none did); that snapshot is the one handed to the function and
\* the one the fingerprint is computed from.
C16_SnapshotHoldsValuesSet ==
  [][Call => HandedAndFingerprinted(last', setlog)]_vars

\* C16, amended: the same, with the two folder keys holding the value passed
\* made absolute against the project root.
C16_SnapshotHoldsResolvedValues ==
  [][Call =>
       HandedAndFingerprinted(last',
         [k \in EnvKeySet |->
            IF k \in {"g_matrix_cache_folder", "g_data_folder"}
            THEN resolve_path(setlog[k]) ELSE setlog[k]])]_vars

\* two calls were made with a set_runtime of the bypass flag between them, and
\* the later one saw the flag's new value next to the keys set before
C16_Witness ==
  /\ Made(prev) /\ Made(last) /\ last.invoked
  /\ prev.rv.g_blow_cache # last.rv.g_blow_cache
  /\ last.rv.g_blow_cache = setlog.g_blow_cache
  /\ last.rv.g_start_time = setlog.g_start_time
  /\ last.rv.g_matrix_cache_folder = resolve_path(setlog.g_matrix_cache_folder)
  /\ last.rv.g_matrix_cache_folder # setlog.g_matrix_cache_folder

\* ------------------------------------------- two processes, one fingerprint
\* the processes, and the values the wrapped function may return in them
Procs == {1, 2}
RaceResults == {"a", "b"}

\* pickle.dump(ret_mx, file): the bytes of a result, in the pieces the file
\* object hands to write()
PickleChunks(r) == [k \in 1..MaxChunks |-> <<r, k>>]

\* the bytes a file has where nothing was written below the written offset
Hole == <<"zeros">>

\* write(chunk) at offset off (counted in chunks) of a file holding content
WriteAt(content, off, chunk) ==
  [k \in 1..(IF off + 1 > Len(content) THEN off + 1 ELSE Len(content)) |->
     IF k = off + 1 THEN chunk
     ELSE IF k <= Len(content) THEN content[k] ELSE Hole]

\* pickle.load(file) of a file holding content: the value it yields, which is
\* the result whose pickle the content starts with, or the error
PickleLoad(content) ==
  IF \E r \in RaceResults :
       Len(content) >= MaxChunks /\ SubSeq(content, 1, MaxChunks) = PickleChunks(r)
  THEN <<"ok", CHOOSE r \in RaceResults : SubSeq(content, 1, MaxChunks) = PickleChunks(r)>>
  ELSE <<"raise", "UnpicklingError">>

RaceInit ==
  /\ CacheInit /\ probe = NoProbe /\ heap = <<>> /\ sigcalls = <<>>
  /\ DivIdle /\ CtorIdle /\ AsofIdle /\ FetchIdle /\ ReflIdle
  /\ race = [pc |-> [p \in Procs |-> "exists"], result |-> [p \in Procs |-> ""],
             off |-> [p \in Procs |-> 0], returned |-> [p \in Procs |-> ""],
             missed |-> [p \in Procs |-> FALSE],
             file |-> <<"absent">>, lastwriter |-> 0]

RaceFrame == UNCHANGED <<cacheVars, probe, heap, sigcalls, div, ctor, asof, fetch, refl>>

\* if not runtime_vars.g_blow_cache and os.path.exists(pkl_file)
TestExists(p) ==
  /\ race.pc[p] = "exists"
  /\ race' = IF race.file[1] = "file"
             THEN [race EXCEPT !.pc[p] = "load"]
             ELSE [race EXCEPT !.pc[p] = "func", !.missed[p] = TRUE]
  /\ RaceFrame

\* with open(pkl_file, "rb") as file: loaded_mx = pickle.load(file); return
LoadEntry(p) ==
  /\ race.pc[p] = "load"
  /\ race.file[1] = "file"
  /\ LET loaded == PickleLoad(race.file[2])
     IN race' = IF loaded[1] = "ok"
                THEN [race EXCEPT !.pc[p] = "returned", !.returned[p] = loaded[2]]
                ELSE [race EXCEPT !.pc[p] = "raised"]
  /\ RaceFrame

\* ret_mx = func(*args, **kwargs)
RunFunc(p) ==
  /\ race.pc[p] = "func"
  /\ \E r \in RaceResults : race' = [race EXCEPT !.pc[p] = "open", !.result[p] = r]
  /\ RaceFrame

\* open(pkl_file, "wb"): the file is created or cut to nothing
OpenForWrite(p) ==
  /\ race.pc[p] = "open"
  /\ race' = [race EXCEPT !.pc[p] = "dump", !.off[p] = 0, !.file = <<"file", <<>>>>]
  /\ RaceFrame

\* one write() of pickle.dump, at the offset of the process's own file object.
\* A file removed or cut meanwhile is written at that offset all the same.
WriteChunk(p) ==
  /\ race.pc[p] = "dump"
  /\ race.off[p] < MaxChunks
  /\ race' = [race EXCEPT
                !.file = <<"file", WriteAt(race.file[2], race.off[p],
                                           PickleChunks(race.result[p])[race.off[p] + 1])>>,
                !.off[p] = @ + 1,
                !.lastwriter = p]
  /\ RaceFrame

\* the with block is left and ret_mx is returned
ReturnResult(p) ==
  /\ race.pc[p] = "dump"
  /\ race.off[p] = MaxChunks
  /\ race' = [race EXCEPT !.pc[p] = "returned", !.returned[p] = race.result[p]]
  /\ RaceFrame

RaceNext ==
  \E p \in Procs :
    \/ TestExists(p) \/ LoadEntry(p) \/ RunFunc(p)
    \/ OpenForWrite(p) \/ WriteChunk(p) \/ ReturnResult(p)

RaceSpec == RaceInit /\ [][RaceNext]_vars

\* C17: when both processes missed and both calls have finished, the entry
\* holds the whole pickle of the result of the process that wrote last, and
\* each process has returned the result it computed itself.
C17_LastWriterWins ==
  (\A p \in Procs : race.missed[p] /\ race.pc[p] = "returned") =>
     /\ \A p \in Procs : race.returned[p] = race.result[p]
     /\ race.file[1] = "file"
     /\ Len(race.file[2]) >= MaxChunks
     /\ SubSeq(race.file[2], 1, MaxChunks) = PickleChunks(race.result[race.lastwriter])

\* ---------------------------------------------------------- _fetch_real_ohlc
\* Instants are counted in half days of UTC: instant 2d is the start of UTC
\* day d and 2d + 1 its middle.  US/Eastern is behind UTC, so the Eastern day d
\* runs from instant 2d + 1 to instant 2d + 2, and the first half of a UTC day
\* belongs to the Eastern day before.
FetchDays == 0..MaxDay
Instants == 0..(2 * MaxDay + 1)

\* pd.to_datetime(d).tz_localize('US/Eastern'): midnight of day d in Eastern
EasternMidnight(d) == 2 * d + 1

\* the date strftime('%Y-%m-%d') gives for an Eastern timestamp
EasternDate(ts) == IF ts = 0 THEN 0 - 1 ELSE (ts - 1) \div 2

\* whether the vendor counts instant ts inside the range of dates [from, to]:
\* it reads the dates in UTC or in Eastern time
VendorInRange(zone, ts, from, to) ==
  IF zone = "utc" THEN 2 * from <= ts /\ ts <= 2 * to + 1
  ELSE EasternMidnight(from) <= ts /\ ts <= 2 * to + 2

\* a set of instants as a sequence in the order asked for
RECURSIVE Ordered(_, _)
Ordered(S, sort) ==
  IF S = {} THEN <<>>
  ELSE LET x == IF sort = "asc" THEN CHOOSE t \in S : \A u \in S : t <= u
                ELSE CHOOSE t \in S : \A u \in S : t >= u
       IN <<x>> \o Ordered(S \ {x}, sort)

\* requests.get(url, params).json()['results']: the first `limit` rows the
\* vendor holds inside [current_start_time, end_time], in the order asked for
VendorPage(v, from, to, sort, limit) ==
  LET rows == Ordered({ts \in v.rows : VendorInRange(v.zone, ts, from, to)}, sort)
  IN SubSeq(rows, 1, Min(limit, Len(rows)))

\* a test that never finds the loop stuck
SameAsLast_never(last_fetched_timestamp, last_timestamp) == FALSE

\* if last_fetched_timestamp == last_timestamp
SameAsLast(last_fetched_timestamp, last_timestamp) ==
  last_fetched_timestamp = <<"Timestamp", last_timestamp>>

\* pd.concat(all_results)
RECURSIVE Concat(_)
Concat(pages) == IF pages = <<>> THEN <<>> ELSE Head(pages) \o Concat(Tail(pages))

\* drop_duplicates(subset=['t']): the first row of each timestamp is kept
drop_duplicates(rows) ==
  SelectSeq([i \in DOMAIN rows |-> <<rows[i], \A j \in 1..(i - 1) : rows[j] # rows[i]>>],
            LAMBDA r : r[2])

\* the rows after the loop: combined, without duplicates, sorted, and cut at
\* end_time_dt
Combine(all_results, sort, end_time_dt) ==
  IF all_results = <<>> THEN <<>>
  ELSE LET final_df == drop_duplicates(Concat(all_results))
           kept == {final_df[i][1] : i \in DOMAIN final_df}
       IN Ordered({ts \in kept : ts <= end_time_dt}, sort)

FetchInit ==
  /\ CacheInit /\ probe = NoProbe /\ heap = <<>> /\ sigcalls = <<>>
  /\ DivIdle /\ CtorIdle /\ AsofIdle /\ RaceIdle /\ ReflIdle
  /\ \E rows \in SUBSET Instants, zone \in {"utc", "eastern"},
        s \in FetchDays, e \in FetchDays, sort \in {"asc", "desc"}, limit \in 1..MaxLimit :
       fetch = [vendor |-> [rows |-> rows, zone |-> zone],
                start_time |-> s, end_time |-> e, sort |-> sort, limit |-> limit,
                pc |-> "loop", all_results |-> <<>>, current_start_time |-> s,
                last_fetched_timestamp |-> None, stop |-> "", final |-> <<>>]

FetchFrame == UNCHANGED <<cacheVars, probe, heap, sigcalls, div, ctor, asof, race, refl>>

\* one pass of the while loop, from the request to the break or the next pass;
\* the vendor answers with status OK
Request ==
  /\ fetch.pc = "loop"
  /\ Len(fetch.all_results) < MaxRequests
  /\ LET results == VendorPage(fetch.vendor, fetch.current_start_time, fetch.end_time,
                               fetch.sort, fetch.limit)
     IN IF results = <<>>
        THEN fetch' = [fetch EXCEPT !.pc = "combine", !.stop = "empty page"]
        ELSE
          LET last_timestamp == results[Len(results)]
              appended == Append(fetch.all_results, results)
              next_start == EasternDate(last_timestamp) + 1
          IN IF SameAsLast(fetch.last_fetched_timestamp, last_timestamp)
             THEN fetch' = [fetch EXCEPT !.all_results = appended, !.pc = "combine",
                                         !.stop = "same timestamp"]
             ELSE IF EasternMidnight(next_start) >= EasternMidnight(fetch.end_time)
             THEN fetch' = [fetch EXCEPT !.all_results = appended,
                                         !.last_fetched_timestamp = <<"Timestamp", last_timestamp>>,
                                         !.current_start_time = next_start,
                                         !.pc = "combine", !.stop = "end reached"]
             ELSE fetch' = [fetch EXCEPT !.all_results = appended,
                                         !.last_fetched_timestamp = <<"Timestamp", last_timestamp>>,
                                         !.current_start_time = next_start]
  /\ FetchFrame

\* the statements after the loop, to the return
Finish ==
  /\ fetch.pc = "combine"
  /\ fetch' = [fetch EXCEPT !.pc = "done",
                            !.final = Combine(fetch.all_results, fetch.sort,
                                              EasternMidnight(fetch.end_time))]
  /\ FetchFrame

FetchNext == Request \/ Finish

FetchSpec == FetchInit /\ [][FetchNext]_vars

\* the loop is straight-line code around a request the vendor answers: a pass
\* that can be made is made, and so is the return
FetchLiveSpec == FetchSpec /\ WF_vars(Request) /\ WF_vars(Finish)

\* C19: every run of _fetch_real_ohlc leaves its loop and returns, and it does
\* so with fewer than MaxRequests requests made.
C19_LoopTerminates ==
  /\ <>(fetch.pc = "done")
  /\ [](Len(fetch.all_results) < MaxRequests)

\* a run has returned after three requests, stopped by the same last timestamp
\* coming back
C19_Witness ==
  /\ fetch.pc = "done"
  /\ Len(fetch.all_results) = 3
  /\ fetch.stop = "same timestamp"

\* C20: when the vendor's rows for [start, end] do not fit one page, the rows
\* returned are all the rows the vendor holds in [start, end] that are not after
\* the cut at end, each once.
C20_EveryRowReturned ==
  LET wanted == {ts \in fetch.vendor.rows :
                   /\ VendorInRange(fetch.vendor.zone, ts, fetch.start_time, fetch.end_time)
                   /\ ts <= EasternMidnight(fetch.end_time)}
      inrange == {ts \in fetch.vendor.rows :
                    VendorInRange(fetch.vendor.zone, ts, fetch.start_time, fetch.end_time)}
  IN (fetch.pc = "done" /\ Cardinality(inrange) > fetch.limit) =>
       /\ {fetch.final[i] : i \in DOMAIN fetch.final} = wanted
       /\ \A i, j \in DOMAIN fetch.final : fetch.final[i] = fetch.final[j] => i = j

\* ------------------------------------------------- the scalar on the left
\* the operators of the reflected methods
ReflectedOps == {"sub", "truediv", "floordiv", "mod", "pow"}

\* the scalars on the left, and the cells of the Matrix on the right
ReflScalars == {Num(n) : n \in 0..MaxOperand}
ReflCells == {NaN} \cup ReflScalars

\* s op m for an int or float s: the reflected method of m is called with s
ReflectedCall(s, op, m) ==
  CASE op = "sub" -> BaseMatrix_rsub(m, s)
    [] op = "truediv" -> BaseMatrix_rtruediv(m, s)
    [] op = "floordiv" -> BaseMatrix_rfloordiv(m, s)
    [] op = "mod" -> BaseMatrix_rmod(m, s)
    [] op = "pow" -> BaseMatrix_rpow(m, s)

\* x / y is the missing marker, an infinity or a whole number
ExactQuotient(x, y) ==
  IF x = NaN \/ y = NaN THEN TRUE
  ELSE IF y[2] = 0 THEN TRUE ELSE x[2] % y[2] = 0

ReflInit ==
  /\ CacheInit /\ probe = NoProbe /\ heap = <<>> /\ sigcalls = <<>>
  /\ DivIdle /\ CtorIdle /\ AsofIdle /\ RaceIdle /\ FetchIdle
  /\ \E v \in {w \in CellSeqs(ReflCells) : Len(w) = 2}, s \in ReflScalars :
       refl = [m |-> DivMatrix(v), s |-> s, op |-> "", done |-> FALSE, result |-> None]

\* r = s - m, r = s / m, r = s // m, r = s % m, r = s ** m.  The model divides
\* only where the quotients, either way round, are whole.
Reflected ==
  \E op \in ReflectedOps :
    /\ ~refl.done
    /\ op = "truediv" =>
         \A i \in DOMAIN refl.m.underlying_df.values :
           LET c == refl.m.underlying_df.values[i][1]
           IN ExactQuotient(refl.s, c) /\ ExactQuotient(c, refl.s)
    /\ refl' = [refl EXCEPT !.op = op, !.done = TRUE,
                            !.result = <<"BaseMatrix", ReflectedCall(refl.s, op, refl.m)>>]
    /\ UNCHANGED <<cacheVars, probe, heap, sigcalls, div, ctor, asof, race, fetch>>

ReflNext == Reflected

ReflSpec == ReflInit /\ [][ReflNext]_vars

\* C21: whatever the scalar s and the Matrix m, the result of s - m, s / m,
\* s // m, s % m or s ** m is a Matrix whose every cell is the operator applied
\* to s on the left and m's cell on the right (an infinite value may have been
\* replaced by the missing marker).
C21_ScalarIsLeftOperand ==
  refl # <<>> /\ refl.done =>
     /\ IsBaseMatrix(refl.result)
     /\ \A i \in DOMAIN refl.m.underlying_df.values :
          LET c == refl.m.underlying_df.values[i][1]
              r == refl.result[2].underlying_df.values[i][1]
              e == CellOp(refl.op, refl.s, c)
          IN r = e \/ (e[1] = "inf" /\ r = NaN)

====
